---- MODULE Spec2Model ----
(***************************************************************************)
(* Model of @salespark/route-utils (src/src/index.ts):                     *)
(*   resolveRouteResponse(res, response) -> boolean                        *)
(*   wrapRoute(handler, options)(req, res)                                 *)
(*   createResponder(res, options)(workFn)                                 *)
(* JavaScript values are records tagged by their type (field t); the sink  *)
(* res is described by how each of its methods behaves when called.      *)
(***************************************************************************)
EXTENDS Integers, Sequences, FiniteSets, TLC

VARIABLES
  sink,         \* the response object res: which methods exist and how they behave
  conf,         \* logger, tagPrefix, options.tag and req of the wrapped route
  arg,          \* the response a caller passes to resolveRouteResponse directly
  headersSent,  \* res.headersSent
  received,     \* number of bodies the sink has accepted so far
  procs,        \* the bag of wrapper invocations whose handler or workFn is running
  last          \* the library step that ran last: its inputs, sink calls, logs, result

vars == <<sink, conf, arg, headersSent, received, procs, last>>

---------------------------------------------------------------------------
(* JavaScript values *)

Prim(t, s, n) == [t |-> t, s |-> s, n |-> n]
Undefined == Prim("undefined", "", 0)
Null == Prim("null", "", 0)
Absent == Prim("absent", "", 0)      \* the property is not there; reading it gives undefined
NoArg == Prim("noarg", "", 0)        \* a call made without an argument
Frac == Prim("frac", "", 0)          \* a number that is not an integer, such as 3.5
Str(x) == Prim("str", x, 0)
Num(k) == Prim("num", "", k)
Bool(b) == Prim("bool", "", IF b THEN 1 ELSE 0)
Obj(st, e, m, x) == [t |-> "obj", status |-> st, error |-> e, message |-> m, extra |-> x]
Err(name, msg) == [t |-> "err", name |-> Str(name), message |-> Str(msg)]
Resp(st, d, h, hd) == [t |-> "resp", status |-> st, data |-> d, http |-> h, headers |-> hd]

\* Reading a property: a missing one reads as undefined
Get(v) == IF v = Absent THEN Undefined ELSE v

\* JavaScript truthiness, as used by x ? a : b, x || y and x && y
Truthy(v) ==
  CASE v.t \in {"undefined", "null", "absent", "noarg"} -> FALSE
    [] v.t = "bool" -> v.n = 1
    [] v.t = "num" -> v.n # 0
    [] v.t = "str" -> v.s # ""
    [] OTHER -> TRUE

\* String(v) of a primitive
Digits == <<"0", "1", "2", "3", "4", "5", "6", "7", "8", "9">>
JsString(v) ==
  CASE v.t = "str" -> v.s
    [] v.t = "num" -> IF v.n \in 0..9 THEN Digits[v.n + 1] ELSE "NaN"
    [] v.t = "bool" -> IF v.n = 1 THEN "true" ELSE "false"
    [] v.t = "null" -> "null"
    [] v.t = "frac" -> "3.5"
    [] OTHER -> "undefined"

\* (error as any)?.message of a caught value
MessageOf(e) == IF e.t \in {"err", "obj"} THEN Get(e.message) ELSE Undefined

\* x?.message || "Unexpected error"
MessageOrDefault(e) == IF Truthy(MessageOf(e)) THEN MessageOf(e) ELSE Str("Unexpected error")

---------------------------------------------------------------------------
(* The sink res (ResLike) *)

Modes == {"missing", "ok", "throws"}

NullSink == [isNull |-> TRUE, status |-> "missing", json |-> "missing", send |-> "missing",
             setHeader |-> "missing", throwCommits |-> FALSE]

\* throwCommits: whether a json()/send() that throws has set headersSent before throwing
Sinks == {NullSink} \cup
  {r \in [isNull : {FALSE}, status : Modes, json : Modes, send : Modes, setHeader : Modes,
          throwCommits : BOOLEAN] : r.throwCommits => "throws" \in {r.json, r.send}}

Capable(res) == ~res.isNull /\ res.status = "ok" /\ res.json = "ok" /\ res.send = "ok"

\* one call of a method of res: its arguments, res.headersSent when it was made, and
\* whether it returned (ok) or threw
Call(m, code, body, k, v, hs, ok) ==
  [m |-> m, code |-> code, body |-> body, k |-> k, v |-> v, hs |-> hs, ok |-> ok]

\* how a statement ends: normally, or by throwing e
Ok(st) == [st |-> st, threw |-> FALSE, err |-> Undefined]
Threw(st, e) == [st |-> st, threw |-> TRUE, err |-> e]
\* an operation on res or the logger throws e
Raise(st, e) == Threw([st EXCEPT !.raised = @ + 1], e)

\* reading res.headersSent
ReadHeadersSent(res, st) ==
  IF res.isNull THEN Raise(st, Err("TypeError", "Cannot read properties of null"))
  ELSE Ok(st)

\* res.status(code)
StatusCall(res, st, code) ==
  IF res.isNull THEN Raise(st, Err("TypeError", "Cannot read properties of null"))
  ELSE IF res.status = "missing" THEN Raise(st, Err("TypeError", "res.status is not a function"))
  ELSE LET ok == res.status = "ok"
           st1 == [st EXCEPT !.calls = Append(@, Call("status", code, NoArg, "", "", st.hs, ok))]
       IN IF ok THEN Ok(st1) ELSE Raise(st1, Err("Error", "status failed"))

\* .json(body) or .send(body) on what res.status(code) returned
BodyCall(res, st, m, body) ==
  IF res[m] = "missing" THEN Raise(st, Err("TypeError", "not a function"))
  ELSE LET ok == res[m] = "ok"
           calls1 == Append(st.calls, Call(m, 0, body, "", "", st.hs, ok))
       IN IF ok
          THEN Ok([st EXCEPT !.hs = TRUE, !.calls = calls1, !.got = @ + 1])
          ELSE Raise([st EXCEPT !.hs = @ \/ res.throwCommits, !.calls = calls1,
                                !.got = @ + (IF res.throwCommits THEN 1 ELSE 0)],
                     Err("Error", "write failed"))

\* res.status(code).json(body) / res.status(code).send()
ThenBody(res, a, m, body) == IF a.threw THEN a ELSE BodyCall(res, a.st, m, body)
SendChain(res, st, code, m, body) == ThenBody(res, StatusCall(res, st, code), m, body)

---------------------------------------------------------------------------
(* resolveRouteResponse *)

MinHttp == 100
MaxHttp == 599

\* (faulty variant) the range test with its upper bound excluded
ExplicitBelowMax(response) ==
  response.http.t = "num" /\ response.http.n >= MinHttp /\ response.http.n < MaxHttp

\* Number.isInteger(response?.http) && response.http >= 100 && response.http <= 599
Explicit(response) ==
  response.http.t = "num" /\ response.http.n >= MinHttp /\ response.http.n <= MaxHttp

\* (faulty variant) 204 chosen for every falsy data instead of undefined, null and ""
HttpCodeFalsyData(response) ==
  IF Explicit(response) THEN response.http.n
  ELSE IF response.status = Bool(TRUE)
       THEN (IF ~Truthy(Get(response.data)) THEN 204 ELSE 200)
       ELSE 400

\* the http constant computed from the response
HttpCode(response) ==
  IF Explicit(response) THEN response.http.n
  ELSE IF response.status = Bool(TRUE)
       THEN (IF Get(response.data) \in {Undefined, Null, Str("")} THEN 204 ELSE 200)
       ELSE 400

\* (faulty variant) the loop left at the first setHeader that throws
RECURSIVE ApplyEntriesUntilThrow(_, _, _)
ApplyEntriesUntilThrow(res, st, entries) ==
  IF entries = <<>> \/ res.setHeader = "missing" THEN st
  ELSE LET e == Head(entries)
           st1 == [st EXCEPT !.calls = Append(@, Call("setHeader", 0, NoArg, e.k, JsString(e.v),
                                                    st.hs, res.setHeader = "ok"))]
       IN IF res.setHeader = "throws" THEN st1 ELSE ApplyEntriesUntilThrow(res, st1, Tail(entries))

\* the loop over Object.entries(response.headers); a throwing setHeader is ignored
RECURSIVE ApplyEntries(_, _, _)
ApplyEntries(res, st, entries) ==
  IF entries = <<>> THEN st
  ELSE LET e == Head(entries)
           st1 == IF res.setHeader = "missing" THEN st
                  ELSE [st EXCEPT !.calls = Append(@, Call("setHeader", 0, NoArg, e.k, JsString(e.v),
                                                           st.hs, res.setHeader = "ok"))]
       IN ApplyEntries(res, st1, Tail(entries))

ApplyHeaders(res, st, response) ==
  IF response.headers.present THEN ApplyEntries(res, st, response.headers.entries) ELSE st

\* errBody of the error path
ErrBody(raw) ==
  IF raw.t = "err"
  THEN Obj(Absent, IF Truthy(raw.name) THEN raw.name ELSE Str("Error"), raw.message, FALSE)
  ELSE IF raw.t = "obj"
  THEN Obj(Absent,
           IF Truthy(Get(raw.error)) THEN raw.error ELSE Absent,
           IF Truthy(Get(raw.message)) THEN raw.message ELSE Absent,
           FALSE)
  ELSE Obj(Absent, Str("RequestFailed"), IF raw.t = "str" THEN raw ELSE Str("Request failed"), FALSE)

\* the fixed bodies (the message texts are written without their backquotes)
MissingStatusBody == Obj(Absent, Str("MissingStatus"), Str("Missing status on response object"), FALSE)
InvalidStatusBody == Obj(Bool(FALSE), Str("InvalidStatusField"), Str("status must be boolean"), FALSE)
UnhandledBody(e) == Obj(Bool(FALSE), Str("UnhandledResponderError"), MessageOrDefault(e), FALSE)

\* (faulty variant) status looked up by value instead of with hasOwnProperty
HasStatusDefined(response) == response.t = "resp" /\ Get(response.status) # Undefined

\* response && typeof response === "object" && hasOwnProperty.call(response, "status")
HasStatus(response) == response.t = "resp" /\ response.status # Absent

\* (faulty variant) the guard on res without the test of res.send
ResGuardNoSend(res) == res.isNull \/ res.status = "missing"

\* the guard on res
ResGuard(res) == res.isNull \/ res.status = "missing" \/ res.send = "missing"

\* (faulty variant) no guard on res.headersSent
SentGuardOff(hs) == FALSE

\* the guard on res.headersSent
SentGuard(hs) == hs

\* the success path, the error path and the fallback, once http is known and the
\* headers are applied
SendByStatus(res, st, http, response) ==
  IF response.status = Bool(TRUE)
  THEN IF http = 204 THEN SendChain(res, st, http, "send", NoArg)
       ELSE SendChain(res, st, http, "json", Get(response.data))
  ELSE IF response.status = Bool(FALSE)
  THEN SendChain(res, st, http, "json", ErrBody(Get(response.data)))
  ELSE SendChain(res, st, 500, "json", InvalidStatusBody)

\* the statements of the try block after the two guards
ResolveBody(res, st, response) ==
  IF ~HasStatus(response) THEN SendChain(res, st, 500, "json", MissingStatusBody)
  ELSE SendByStatus(res, ApplyHeaders(res, st, response), HttpCode(response), response)

\* (faulty variant) the last 500 sent without looking at res.headersSent
LastResortSendUnchecked(res, st, e) == SendChain(res, st, 500, "json", UnhandledBody(e))

\* the statement of the inner try: one last 500 if nothing was committed
LastResortSend(res, st, e) ==
  LET h == ReadHeadersSent(res, st)
  IN IF h.threw THEN h
     ELSE IF st.hs THEN Ok(st)
     ELSE SendChain(res, st, 500, "json", UnhandledBody(e))

\* the outer catch block: the inner try, whose own failure is swallowed
LastResort(res, st, e) == Ok(LastResortSend(res, st, e).st)

\* ret is the value returned; threw says that the call raised instead of returning
Returns(v, c) == [ret |-> v, st |-> c.st, threw |-> c.threw, err |-> c.err]

\* after the try block: return true, through the catch block if something was thrown
ResolveEnd(res, b) == IF b.threw THEN Returns(TRUE, LastResort(res, b.st, b.err)) ELSE Returns(TRUE, b)

resolveRouteResponse(res, st, response) ==
  IF ResGuard(res) THEN Returns(FALSE, Ok(st))
  ELSE IF SentGuard(st.hs) THEN Returns(TRUE, Ok(st))
  ELSE ResolveEnd(res, ResolveBody(res, st, response))

---------------------------------------------------------------------------
(* Inputs *)

StatusVals == {Absent, Bool(TRUE), Bool(FALSE), Undefined, Null, Str("yes"), Num(0)}

DataVals ==
  {Absent, Undefined, Null, Str(""), Str("oops"), Num(0), Bool(FALSE)}
  \cup {Err("TypeError", "boom"), Err("", "boom"), Err("Error", "")}
  \cup {Obj(Absent, e, m, x) : e \in {Absent, Str(""), Str("ValidationError")},
                                m \in {Absent, Num(0), Str("Name required")},
                                x \in BOOLEAN}

HttpVals == {Absent, Frac} \cup {Num(k) : k \in {MinHttp - 1, MinHttp, 204, MaxHttp, MaxHttp + 1}}

NoHeaders == [present |-> FALSE, entries |-> <<>>]
Headers(es) == [present |-> TRUE, entries |-> es]
HeaderVals == {NoHeaders, Headers(<<[k |-> "X-Test", v |-> Str("1")], [k |-> "X-Num", v |-> Num(2)]>>)}

Results ==
  {Undefined, Null, Str("ok")}
  \cup {Resp(s, d, h, hd) : s \in StatusVals, d \in DataVals, h \in HttpVals, hd \in HeaderVals}

\* the results tried on the sinks that lack a method or throw: every status, every
\* branch of the code, with and without headers
CoreResults ==
  {Undefined}
  \cup {Resp(s, d, h, hd) : s \in StatusVals, d \in {Absent, Str("oops"), Num(0)},
                            h \in {Absent, Num(204), Num(MaxHttp)}, hd \in HeaderVals}

---------------------------------------------------------------------------
(* wrapRoute and createResponder *)

\* routeLogger(payload, tag): the call is recorded; a failing logger throws
LogCall(lg, st, payload, tag) ==
  LET st1 == [st EXCEPT !.logs = Append(@, [payload |-> payload, tag |-> tag])]
  IN IF lg = "throws" THEN Raise(st1, Err("Error", "logger failed")) ELSE Ok(st1)

\* (faulty variant) the best-effort 500 sent without looking at res.headersSent
BestEffort500Unchecked(res, st, body) == SendChain(res, st, 500, "json", body)

\* if (!res.headersSent) res.status(500).json(body)
BestEffort500(res, st, body) ==
  LET h == ReadHeadersSent(res, st)
  IN IF h.threw THEN h
     ELSE IF st.hs THEN Ok(st)
     ELSE SendChain(res, st, 500, "json", body)

\* req?.method ?? "?"  and  req?.originalUrl ?? "?"
OrQuestion(v) == IF v.t \in {"absent", "undefined", "null"} THEN "?" ELSE JsString(v)
ReqField(req, f) == IF req.t = "req" THEN req[f] ELSE Undefined

\* baseTag and tag of the wrapRoute handler
WrapTag(c) ==
  LET baseTag == IF Truthy(c.tag) THEN c.tag.s
                 ELSE OrQuestion(ReqField(c.req, "method")) \o " " \o OrQuestion(ReqField(c.req, "originalUrl"))
  IN IF c.tagPrefix # "" THEN c.tagPrefix \o baseTag ELSE baseTag

\* tagBase || "createResponder"
ResponderTag(c) == IF Truthy(c.tag) THEN c.tag.s ELSE "createResponder"

ShapePayload(response, route) ==
  [t |-> "shape", message |-> Str("Unexpected response shape"), response |-> response, route |-> route]

\* after the logger call l: the best-effort 500, unless the logger threw
ThenSend500(res, l, body) == IF l.threw THEN l ELSE BestEffort500(res, l.st, body)

\* the catch block of the wrapRoute handler; threw = the promise rejects
WrapCatch(res, lg, st, e, tag) ==
  ThenSend500(res, LogCall(lg, st, e, tag \o "/catch"), Obj(Absent, MessageOrDefault(e), Absent, FALSE))

\* the try block of the wrapRoute handler after resolveRouteResponse gave r
WrapResolved(res, lg, r, response, tag) ==
  IF r.threw THEN Threw(r.st, r.err)
  ELSE IF r.ret THEN Ok(r.st)
  ELSE ThenSend500(res, LogCall(lg, r.st, ShapePayload(response, Str(tag)), tag),
                   Obj(Absent, Str("UnexpectedResponseShape"), Absent, FALSE))

\* the try block of the wrapRoute handler, from the point where the handler has settled
WrapTry(res, lg, st, outcome, tag) ==
  IF outcome.threw THEN Threw(st, outcome.val)
  ELSE WrapResolved(res, lg, resolveRouteResponse(res, st, outcome.val), outcome.val, tag)

\* what the try block threw goes to the catch block
WrapSettled(res, lg, t, tag) == IF t.threw THEN WrapCatch(res, lg, t.st, t.err, tag) ELSE t

wrapRoute(res, lg, st, outcome, tag) == WrapSettled(res, lg, WrapTry(res, lg, st, outcome, tag), tag)

\* the catch block of the responder
ResponderCatch(res, lg, st, e, tag) ==
  ThenSend500(res, LogCall(lg, st, e, tag \o "/catch"), Obj(Bool(FALSE), MessageOrDefault(e), Absent, FALSE))

\* the try block of the responder after resolveRouteResponse gave r
ResponderResolved(res, lg, r, response, tag) ==
  IF r.threw THEN Threw(r.st, r.err)
  ELSE IF r.ret THEN Ok(r.st)
  ELSE ThenSend500(res, LogCall(lg, r.st, ShapePayload(response, Absent), tag),
                   Obj(Bool(FALSE), Str("UnexpectedResponseShape"), Absent, FALSE))

\* the try block of the responder, from the point where workFn has settled
ResponderTry(res, lg, st, outcome, tag) ==
  IF outcome.threw THEN Threw(st, outcome.val)
  ELSE ResponderResolved(res, lg, resolveRouteResponse(res, st, outcome.val), outcome.val, tag)

ResponderSettled(res, lg, t, tag) == IF t.threw THEN ResponderCatch(res, lg, t.st, t.err, tag) ELSE t

createResponder(res, lg, st, outcome, tag) ==
  ResponderSettled(res, lg, ResponderTry(res, lg, st, outcome, tag), tag)

---------------------------------------------------------------------------
(* State machine *)

\* how many wrapper invocations may be awaiting their handler at the same time
MaxCalls == 2

\* what handlers and work functions return or throw in the concurrent specification
SomeHeaders == Headers(<<[k |-> "X-Test", v |-> Str("1")], [k |-> "X-Num", v |-> Num(2)]>>)
SmallResults ==
  {Undefined,
   Resp(Bool(TRUE), Str("oops"), Absent, NoHeaders),
   Resp(Bool(TRUE), Absent, Absent, SomeHeaders),
   Resp(Bool(FALSE), Str("oops"), Num(MaxHttp), NoHeaders),
   Resp(Str("yes"), Null, Absent, NoHeaders)}
Thrown == {Err("Error", "boom"), Err("Error", ""), Null}
Outcomes == [threw : {FALSE}, val : SmallResults] \cup [threw : {TRUE}, val : Thrown]

Req(m, u) == [t |-> "req", method |-> m, originalUrl |-> u]
\* (req is read only when options.tag is not given)
Confs == {c \in [logger : {"ok", "throws"}, tagPrefix : {"", "P:"}, tag : {Absent, Str("T")},
                 req : {Null, Req(Str("GET"), Absent)}] :
            /\ c.tag # Absent => c.req = Null
            /\ c.tag = Absent => (c.req = Null <=> c.tagPrefix = "")}
\* the sinks of the concurrent specification: setHeader varies on the sinks that work
WrapSinks == {r \in Sinks : r.isNull \/ r.setHeader = "ok" \/ Capable(r)}
DefaultConf == [logger |-> "ok", tagPrefix |-> "", tag |-> Absent, req |-> Null]

\* an invocation in flight: which wrapper, its tag, whether its handler has sent a response
Running(kind, tag) == [kind |-> kind, tag |-> tag, committed |-> FALSE]

\* the invocations in flight form a bag: a function from invocations to how many of them run
NoProcs == [p \in {} |-> 0]
Count(b, p) == IF p \in DOMAIN b THEN b[p] ELSE 0
Add(b, p) == [q \in DOMAIN b \cup {p} |-> Count(b, q) + (IF q = p THEN 1 ELSE 0)]
Remove(b, p) == [q \in {x \in DOMAIN b : x # p \/ b[x] > 1} |-> IF q = p THEN b[q] - 1 ELSE b[q]]
RECURSIVE SizeOver(_, _)
SizeOver(b, S) == IF S = {} THEN 0 ELSE LET p == CHOOSE x \in S : TRUE IN b[p] + SizeOver(b, S \ {p})
Size(b) == SizeOver(b, DOMAIN b)

NoStep == [op |-> "none", pre |-> FALSE, input |-> Undefined, threw |-> FALSE,
           ret |-> "none", calls |-> <<>>, logs |-> <<>>, raised |-> 0, tag |-> "",
           committed |-> FALSE]

Init ==
  /\ sink \in WrapSinks
  /\ conf \in Confs
  /\ arg = Undefined
  /\ headersSent = FALSE
  /\ received = 0
  /\ procs = NoProcs
  /\ last = NoStep

InitResolve ==
  /\ sink \in Sinks
  /\ conf = DefaultConf
  /\ arg \in Results
  /\ Capable(sink) \/ arg \in CoreResults
  /\ headersSent = FALSE
  /\ received = 0
  /\ procs = NoProcs
  /\ last = NoStep

St0 == [hs |-> headersSent, calls |-> <<>>, got |-> 0, logs |-> <<>>, raised |-> 0]

\* the sink lets application code send a response on it
CanCommit == ~sink.isNull /\ sink.status = "ok" /\ sink.json = "ok" /\ ~headersSent

\* application code commits the response itself, outside the library
AppCommit ==
  /\ CanCommit
  /\ headersSent' = TRUE
  /\ received' = received + 1
  /\ last' = NoStep
  /\ UNCHANGED <<sink, conf, arg, procs>>

\* the state after a direct call that gave r
Resolved(response, r) ==
  /\ headersSent' = r.st.hs
  /\ received' = received + r.st.got
  /\ last' = [NoStep EXCEPT !.op = "resolve", !.pre = headersSent, !.input = response,
                            !.ret = IF r.threw THEN "raised" ELSE IF r.ret THEN "true" ELSE "false",
                            !.calls = r.st.calls, !.raised = r.st.raised]
  /\ UNCHANGED <<sink, conf, arg, procs>>

\* a direct call resolveRouteResponse(res, response)
ResolveCall(response) == Resolved(response, resolveRouteResponse(sink, St0, response))

\* the wrapRoute handler is invoked: the tag is built and the handler starts
WrapStart ==
  /\ Size(procs) < MaxCalls
  /\ procs' = Add(procs, Running("wrap", WrapTag(conf)))
  /\ last' = NoStep
  /\ UNCHANGED <<sink, conf, arg, headersSent, received>>

\* the responder is invoked: workFn starts
RespondStart ==
  /\ Size(procs) < MaxCalls
  /\ procs' = Add(procs, Running("respond", ResponderTag(conf)))
  /\ last' = NoStep
  /\ UNCHANGED <<sink, conf, arg, headersSent, received>>

\* a running handler or workFn sends a response itself
HandlerCommit(p) ==
  /\ CanCommit
  /\ headersSent' = TRUE
  /\ received' = received + 1
  /\ procs' = Add(Remove(procs, p), [p EXCEPT !.committed = TRUE])
  /\ last' = NoStep
  /\ UNCHANGED <<sink, conf, arg>>

\* the state after a wrapper ended as r: the promise rejects, or resolves (to true for
\* the responder)
Finished(p, outcome, r) ==
  /\ headersSent' = r.st.hs
  /\ received' = received + r.st.got
  /\ last' = [op |-> p.kind, pre |-> headersSent, input |-> outcome.val,
              threw |-> outcome.threw,
              ret |-> IF r.threw THEN "rejected" ELSE IF p.kind = "wrap" THEN "resolved" ELSE "true",
              calls |-> r.st.calls, logs |-> r.st.logs,
              raised |-> r.st.raised, tag |-> p.tag, committed |-> p.committed]
  /\ procs' = Remove(procs, p)
  /\ UNCHANGED <<sink, conf, arg>>

\* the handler settles and the rest of the wrapRoute handler runs to its end
WrapFinish(p, outcome) ==
  /\ p.kind = "wrap"
  /\ Finished(p, outcome, wrapRoute(sink, conf.logger, St0, outcome, p.tag))

\* workFn settles and the rest of the responder runs to its end
RespondFinish(p, outcome) ==
  /\ p.kind = "respond"
  /\ Finished(p, outcome, createResponder(sink, conf.logger, St0, outcome, p.tag))

Next ==
  \/ \E response \in SmallResults : ResolveCall(response)
  \/ WrapStart
  \/ RespondStart
  \/ \E p \in DOMAIN procs : HandlerCommit(p)
  \/ \E p \in DOMAIN procs, outcome \in Outcomes : WrapFinish(p, outcome)
  \/ \E p \in DOMAIN procs, outcome \in Outcomes : RespondFinish(p, outcome)

Spec == Init /\ [][Next]_vars

NextResolve == ResolveCall(arg) \/ AppCommit

SpecResolve == InitResolve /\ [][NextResolve]_vars

---------------------------------------------------------------------------
(* Properties *)

Wrappers == {"wrap", "respond"}
BodyCallIdx(calls) == {k \in DOMAIN calls : calls[k].m \in {"json", "send"}}
\* a body was sent: a json() or send() call returned
BodySent(calls) == \E k \in BodyCallIdx(calls) : calls[k].ok
\* the sink has what the first guard asks for
HasStatusAndSend == ~sink.isNull /\ sink.status # "missing" /\ sink.send # "missing"
\* a json()/send() that throws has set headersSent before throwing
SetsHeadersSentOnCall == "throws" \in {sink.json, sink.send} => sink.throwCommits

\* C1: whatever the interleaving of direct calls, wrapRoute handlers and responders on
\* one sink (handlers that commit the response themselves included), the library never
\* calls json() or send() while headersSent is true, the sink accepts at most one body,
\* and on a sink that sets headersSent at the moment json()/send() is called a library
\* step makes at most one such call.
C1_CommitAtMostOnce ==
  /\ \A k \in BodyCallIdx(last.calls) : ~last.calls[k].hs
  /\ received <= 1
  /\ SetsHeadersSentOnCall => Cardinality(BodyCallIdx(last.calls)) <= 1

\* a handler raised after another in-flight handler had committed the response itself:
\* the wrapper that finished sent nothing
C1_Witness ==
  /\ last.op \in Wrappers /\ last.threw /\ last.pre /\ ~last.committed
  /\ BodyCallIdx(last.calls) = {}
  /\ received = 1
  /\ \E p \in DOMAIN procs : p.committed

\* C2: the promise of the wrapRoute handler never rejects; the promise of the responder
\* never rejects and resolves to true (every sink, every outcome, every logger).
C2_NeverRejects ==
  /\ last.op = "wrap" => last.ret = "resolved"
  /\ last.op = "respond" => last.ret = "true"

\* C3 as stated: resolveRouteResponse returns false exactly when the sink is null or lacks
\* status or send, and then no method of the sink was called; otherwise it returns true,
\* and true only if a body was sent during the call or the sink was committed before it.
C3_ReturnValueAsStated ==
  last.op = "resolve" =>
    /\ last.ret = "false" <=> ~HasStatusAndSend
    /\ last.ret = "false" => last.calls = <<>>
    /\ last.ret # "false" => last.ret = "true"
    /\ last.ret = "true" => (last.pre \/ BodySent(last.calls))

\* C3 (amended): as C3, but true is returned only if a body was sent during the call, or
\* the sink was committed before it, or an operation on the sink raised during the call.
C3_ReturnValue ==
  last.op = "resolve" =>
    /\ last.ret = "false" <=> ~HasStatusAndSend
    /\ last.ret = "false" => last.calls = <<>>
    /\ last.ret # "false" => last.ret = "true"
    /\ last.ret = "true" => (last.pre \/ BodySent(last.calls) \/ last.raised > 0)

\* true came back although nothing was sent and nothing had been committed: json() threw,
\* and threw again on the last 500
C3_Witness ==
  /\ last.op = "resolve" /\ last.ret = "true" /\ ~last.pre
  /\ ~BodySent(last.calls) /\ last.raised = 2 /\ sink.json = "throws"

\* C4: a logger that throws never prevents the response: when the logger is called and
\* throws in a wrapRoute handler or a responder on a capable, uncommitted sink, the 500 is
\* still sent and the wrapper completes normally.
C4_LoggerNeverGates ==
  (last.op \in Wrappers /\ conf.logger = "throws" /\ last.logs # <<>> /\ Capable(sink) /\ ~last.pre) =>
    /\ last.ret # "rejected"
    /\ \E k \in BodyCallIdx(last.calls) :
         /\ k > 1 /\ last.calls[k].m = "json"
         /\ last.calls[k - 1].m = "status" /\ last.calls[k - 1].code = 500

StatusCodes(calls) == {calls[k].code : k \in {j \in DOMAIN calls : calls[j].m = "status"}}
NotHeader(c) == c.m # "setHeader"
NonHeaderCalls(calls) == SelectSeq(calls, NotHeader)
\* the result is an object whose http is an integer in [100,599]
ExplicitHttp(r) == r.t = "resp" /\ r.http.t = "num" /\ r.http.n \in 100..599
BooleanStatus(r) == r.t = "resp" /\ r.status \in {Bool(TRUE), Bool(FALSE)}
ResolvedOnFreshCapableSink == last.op = "resolve" /\ Capable(sink) /\ ~last.pre

\* C5 as stated: an integer http in [100,599] is the status code set on a capable
\* uncommitted sink, whatever status (true, false, non-boolean, absent) and data are.
C5_HttpOverridesAsStated ==
  (ResolvedOnFreshCapableSink /\ ExplicitHttp(last.input)) =>
    StatusCodes(last.calls) = {last.input.http.n}

\* C5 (amended): for every result whose status is strictly true or false and whose http is
\* an integer in [100,599], exactly that status code is set on a capable uncommitted
\* sink, whatever data is.
C5_HttpOverrides ==
  (ResolvedOnFreshCapableSink /\ ExplicitHttp(last.input) /\ BooleanStatus(last.input)) =>
    StatusCodes(last.calls) = {last.input.http.n}

\* a failure carrying an Error and http 599 is answered with 599
C5_Witness ==
  /\ ResolvedOnFreshCapableSink /\ ExplicitHttp(last.input)
  /\ last.input.status = Bool(FALSE) /\ last.input.data.t = "err"
  /\ last.input.http.n = 599 /\ StatusCodes(last.calls) = {599}

\* C6: with boolean status and http absent or not an integer in [100,599], a capable
\* uncommitted sink gets 204 and send() without argument for success with data undefined,
\* null or ""; 200 and json(data) for success with any other data; 400 for failure.
C6_DefaultMapping ==
  (ResolvedOnFreshCapableSink /\ BooleanStatus(last.input) /\ ~ExplicitHttp(last.input)) =>
    LET d == last.input.data
        cs == NonHeaderCalls(last.calls)
        empty == d \in {Absent, Undefined, Null, Str("")}
    IN /\ Len(cs) = 2 /\ cs[1].m = "status" /\ cs[2].ok
       /\ (last.input.status = Bool(TRUE) /\ empty) =>
            (cs[1].code = 204 /\ cs[2].m = "send" /\ cs[2].body = NoArg)
       /\ (last.input.status = Bool(TRUE) /\ ~empty) =>
            (cs[1].code = 200 /\ cs[2].m = "json" /\ cs[2].body = d)
       /\ last.input.status = Bool(FALSE) => (cs[1].code = 400 /\ cs[2].m = "json")

\* success with data false and http 600: 200 with body false
C6_Witness ==
  /\ ResolvedOnFreshCapableSink /\ last.input.t = "resp"
  /\ last.input.status = Bool(TRUE) /\ last.input.data = Bool(FALSE)
  /\ last.input.http = Num(600)
  /\ NonHeaderCalls(last.calls)[2].body = Bool(FALSE)

\* the failure body as C7 describes it
ClaimedErrBody(d) ==
  IF d.t = "err" THEN Obj(Absent, IF d.name = Str("") THEN Str("Error") ELSE d.name, d.message, FALSE)
  ELSE IF d.t = "obj" THEN Obj(Absent, d.error, d.message, FALSE)
  ELSE Obj(Absent, Str("RequestFailed"), IF d.t = "str" THEN d ELSE Str("Request failed"), FALSE)

\* C7: for status false the json body is {error: name or "Error", message} for an Error,
\* the error and message fields of a plain object when present (whatever their values)
\* and nothing else of it, and {error: "RequestFailed", message} for a primitive.
C7_FailureBody ==
  (ResolvedOnFreshCapableSink /\ last.input.t = "resp" /\ last.input.status = Bool(FALSE)) =>
    \E k \in BodyCallIdx(last.calls) :
      /\ last.calls[k].m = "json"
      /\ last.calls[k].body = ClaimedErrBody(Get(last.input.data))

Unhandled(c) == c.m = "json" /\ c.body.t = "obj" /\ c.body.error = Str("UnhandledResponderError")
\* the call set res.headersSent
Committed(c) == c.m \in {"json", "send"} /\ (c.ok \/ sink.throwCommits)

\* C8: resolveRouteResponse returns a boolean and never raises; when a step after the
\* guards raises it returns true, makes at most one further attempt, status(500) and
\* json({status:false, error:"UnhandledResponderError", message}), makes it only while
\* the sink is uncommitted, and calls nothing after a call that committed the sink.
C8_NeverThrowsNoDoubleSend ==
  last.op = "resolve" =>
    /\ last.ret \in {"true", "false"}
    /\ last.raised > 0 =>
         LET cs == last.calls
             U == {k \in DOMAIN cs : Unhandled(cs[k])}
             S == {k \in DOMAIN cs : cs[k].m = "status"}
         IN /\ last.ret = "true"
            /\ last.raised <= 2
            /\ Cardinality(U) <= 1 /\ Cardinality(S) <= 2 /\ Cardinality(BodyCallIdx(cs)) <= 2
            /\ \A k \in U : /\ k = Len(cs) /\ ~cs[k].hs
                            /\ cs[k - 1].m = "status" /\ cs[k - 1].code = 500
                            /\ cs[k].body.status = Bool(FALSE) /\ cs[k].body.message.t = "str"
                            /\ \E j \in 1..(k - 2) : ~cs[j].ok /\ cs[j].m # "setHeader"
            /\ \A k \in BodyCallIdx(cs) : k < Len(cs) =>
                 /\ ~cs[k].ok /\ Len(cs) <= k + 2
                 /\ cs[k + 1].m = "status" /\ cs[k + 1].code = 500
                 /\ Len(cs) = k + 2 => Unhandled(cs[k + 2])
            /\ \A j, k \in S : j < k => (cs[k].code = 500 /\ ~cs[k].hs /\ Len(cs) <= k + 1)
            /\ \A k \in DOMAIN cs : Committed(cs[k]) => k = Len(cs)

\* json() threw without committing: the last 500 was attempted, threw too, and true came back
C8_Witness ==
  /\ last.op = "resolve" /\ last.ret = "true" /\ last.raised = 2
  /\ sink.json = "throws" /\ ~sink.throwCommits
  /\ Len(last.calls) >= 4 /\ Unhandled(last.calls[Len(last.calls)])
  /\ ~headersSent

\* the tag the wrapRoute handler is to use, from the options, the request and the prefix
EffectiveTag ==
  conf.tagPrefix \o (IF conf.tag = Str("T") THEN "T"
                     ELSE IF conf.req = Null THEN "? ?" ELSE "GET ?")

\* C9: when the handler of a wrapRoute handler raises on a capable sink, the logger is
\* called exactly once, with the error and the effective tag followed by "/catch"; an
\* uncommitted sink gets exactly one response, 500 with {error: message or
\* "Unexpected error"}; a committed sink gets nothing.
C9_HandlerException ==
  (last.op = "wrap" /\ last.threw /\ Capable(sink)) =>
    /\ last.logs = <<[payload |-> last.input, tag |-> EffectiveTag \o "/catch"]>>
    /\ last.pre => last.calls = <<>>
    /\ ~last.pre =>
         /\ Len(last.calls) = 2
         /\ last.calls[1].m = "status" /\ last.calls[1].code = 500
         /\ last.calls[2].m = "json" /\ last.calls[2].ok
         /\ last.calls[2].body =
              Obj(Absent,
                  IF last.input.t = "err" /\ last.input.message # Str("")
                  THEN last.input.message ELSE Str("Unexpected error"),
                  Absent, FALSE)

\* C10: on a sink that has status and send and is already committed, resolveRouteResponse
\* returns true and calls none of status, json, send, setHeader, whatever the result is;
\* the sink stays as it was.
C10_IdempotencyGuard ==
  (last.op = "resolve" /\ HasStatusAndSend /\ last.pre) =>
    /\ last.ret = "true"
    /\ last.calls = <<>>
    /\ headersSent /\ received = 1

\* a result with headers resolved on a committed sink with a working setHeader
C10_Witness ==
  /\ last.op = "resolve" /\ last.pre /\ last.ret = "true" /\ last.calls = <<>>
  /\ last.input.t = "resp" /\ last.input.headers.present /\ sink.setHeader = "ok"
  /\ Capable(sink)

\* the result is not an object, or has no own status field
StatusMissing(r) == r.t # "resp" \/ r.status = Absent
\* the result has a status field whose value is neither true nor false
StatusInvalid(r) == r.t = "resp" /\ r.status # Absent /\ r.status \notin {Bool(TRUE), Bool(FALSE)}
\* the body holds status, error and message only, and the message is a fixed text
FixedBody(b, status, error, text) ==
  b.t = "obj" /\ b.status = status /\ b.error = Str(error) /\ b.message = Str(text) /\ ~b.extra

\* C11: on a capable uncommitted sink, a result that is not an object or has no own status
\* field gets status(500) and json of a body whose error is "MissingStatus", with a fixed
\* message and nothing of data; a result whose status is present but neither true nor
\* false (undefined, null, a truthy string, 0) gets status(500) and json of
\* {status:false, error:"InvalidStatusField", message}, whatever http and data are. In
\* both cases the call returns true and the sink is committed once.
C11_MalformedStatus ==
  (ResolvedOnFreshCapableSink /\ ~BooleanStatus(last.input)) =>
    LET cs == NonHeaderCalls(last.calls)
    IN /\ last.ret = "true" /\ headersSent /\ received = 1
       /\ Len(cs) = 2
       /\ cs[1].m = "status" /\ cs[1].code = 500
       /\ cs[2].m = "json" /\ cs[2].ok
       /\ StatusMissing(last.input) =>
            FixedBody(cs[2].body, Absent, "MissingStatus", "Missing status on response object")
       /\ StatusInvalid(last.input) =>
            FixedBody(cs[2].body, Bool(FALSE), "InvalidStatusField", "status must be boolean")

\* a result with status undefined (the field is there), http 204 and data "oops" was
\* answered with 500 InvalidStatusField
C11_Witness ==
  /\ ResolvedOnFreshCapableSink /\ StatusInvalid(last.input)
  /\ last.input.status = Undefined /\ last.input.http = Num(204) /\ last.input.data = Str("oops")
  /\ StatusCodes(last.calls) = {500}
  /\ \E k \in BodyCallIdx(last.calls) : last.calls[k].body.error = Str("InvalidStatusField")

\* the state of a call made on a sink where nothing was sent yet
Fresh == [hs |-> FALSE, calls |-> <<>>, got |-> 0, logs |-> <<>>, raised |-> 0]
\* the same sink without setHeader
WithoutSetHeader(res) == [res EXCEPT !.setHeader = "missing"]
\* the calls the result gets on the sink when the sink has no setHeader
CallsWithoutSetHeader(r) == resolveRouteResponse(WithoutSetHeader(sink), Fresh, r).st.calls

\* C12: for a result with boolean status and a headers object, on a capable uncommitted
\* sink: a sink that has setHeader gets one setHeader(k, String(v)) call per entry, in the
\* order of the entries, all of them before status() and while the sink is uncommitted,
\* those after a call that threw included; a sink without setHeader gets no header call;
\* in every case the status code and the body are those the sink without setHeader gets,
\* and the body is sent.
C12_HeadersBeforeBody ==
  (ResolvedOnFreshCapableSink /\ BooleanStatus(last.input) /\ last.input.headers.present) =>
    LET cs == last.calls
        es == last.input.headers.entries
        n == IF sink.setHeader = "missing" THEN 0 ELSE Len(es)
    IN /\ Len(cs) = n + 2
       /\ \A i \in 1..n :
            /\ cs[i].m = "setHeader" /\ cs[i].k = es[i].k /\ cs[i].v = JsString(es[i].v)
            /\ ~cs[i].hs
            /\ cs[i].ok <=> sink.setHeader = "ok"
       /\ cs[n + 1].m = "status" /\ cs[n + 1].ok
       /\ cs[n + 2].m \in {"json", "send"} /\ cs[n + 2].ok
       /\ NonHeaderCalls(cs) = CallsWithoutSetHeader(last.input)
       /\ last.ret = "true" /\ headersSent /\ received = 1

\* setHeader threw for X-Test; X-Num was applied all the same, as "2", and the success
\* was answered with 200 and its data
C12_Witness ==
  /\ ResolvedOnFreshCapableSink /\ sink.setHeader = "throws"
  /\ last.input.t = "resp" /\ last.input.status = Bool(TRUE) /\ last.input.data = Str("oops")
  /\ last.input.http = Absent /\ last.input.headers.present
  /\ Len(last.calls) = 4
  /\ last.calls[1].k = "X-Test" /\ ~last.calls[1].ok
  /\ last.calls[2].k = "X-Num" /\ last.calls[2].v = "2" /\ ~last.calls[2].ok
  /\ last.calls[3].code = 200 /\ last.calls[4].body = Str("oops") /\ last.calls[4].ok

====
